---- MODULE Spec2Model ----
(***************************************************************************)
(* Dev-environment reconnection watcher (codecatalyst reconnect module).   *)
(*                                                                         *)
(* The persisted store is the value kept under CODECATALYST_RECONNECT_KEY  *)
(* in the global memento: memento.get returns its current value and        *)
(* memento.update replaces it as a whole.  Every window (process) has one  *)
(* watchRestartingDevEnvs registration; every connection-change signal     *)
(* starts one handler invocation.  A handler that reaches reconnectDevEnvs *)
(* becomes a watcher: it holds a working set (the local object `devenvs`)  *)
(* and runs pollDevEnvs.                                                   *)
(*                                                                         *)
(* The memento is used through its interface only: get returns the value   *)
(* last stored by update, in whichever window, as a value of its own.      *)
(*                                                                         *)
(* Steps are split at the points where another window can act on the       *)
(* shared store: after the read used for filtering (the progress callback  *)
(* that performs the claim write is invoked by the host), at every await   *)
(* of the status query, and at the sleep between ticks.                    *)
(***************************************************************************)
EXTENDS Integers, Sequences, FiniteSets, TLC

\* ---------------------------------------------------------------- constants
RECONNECT_TIMER == 5000
\* The delay between the end of the connect command and closeWindow.
CLOSE_DELAY == 5000
MAX_RECONNECT_TIME == 10 * 60 * 1000

\* ------------------------------------------------------------------- bounds
MaxTicks == 1        \* how many times the clock advances by RECONNECT_TIMER

None == "none"
Procs == {"p1", "p2"}
Ids == {"e1", "e2"}
\* Invocations of the onDidChangeActiveConnection callback: a1 and then a2
\* in window p1, b1 in window p2.
Handlers == {"a1", "a2", "b1"}
WindowOf(h) == IF h = "b1" THEN "p2" ELSE "p1"

StartTime == MAX_RECONNECT_TIME + 1
EndTime == StartTime + MaxTicks * RECONNECT_TIMER

\* Timestamps a stored record can carry at StartTime: already expired,
\* exactly at the window boundary, and fresh.
Timestamps == {StartTime - MAX_RECONNECT_TIME - 1, StartTime - MAX_RECONNECT_TIME, StartTime}

\* Statuses the status query can return; None is an absent status field.
Statuses == {"RUNNING", "FAILED", "DELETING", "DELETED", "STARTING", None}
QueryError == "error"

\* The fields of a DevEnvMemento other than the timestamp and the claim flag
\* are fixed per id.
AliasOf(id) == IF id = "e1" THEN "" ELSE "dev"
WorkspaceOf(id) == IF id = "e1" THEN "/projects" ELSE "/ws"

DevEnvMemento(id, ts, attempting) ==
    [ previousVscodeWorkspace |-> WorkspaceOf(id),
      spaceName |-> "space",
      projectName |-> "project",
      attemptingReconnect |-> attempting,
      previousConnectionTimestamp |-> ts,
      alias |-> AliasOf(id) ]

Stores ==
    UNION { { [id \in S |-> DevEnvMemento(id, ts[id], att[id])] :
                ts \in [S -> Timestamps], att \in [S -> BOOLEAN] } : S \in SUBSET Ids }

EmptyRecord == [id \in {} |-> DevEnvMemento(id, 0, FALSE)]

\* delete obj[id]
Delete(obj, id) == [k \in DOMAIN obj \ {id} |-> obj[k]]

VARIABLES
    store,           \* persisted store: id -> DevEnvMemento
    now,             \* Date.now()
    envId,           \* per window: getCodeCatalystDevEnvId(), None = undefined
    restartHandled,  \* per window: the flag of watchRestartingDevEnvs
    pc,              \* per handler invocation: its position
    devenvs,         \* per watcher: the working set (a local of the call: empty
                     \* before the call and after it returned)
    todo,            \* per watcher: keys the current for-in has not visited
    wake,            \* per watcher: time at which the pending sleep(RECONNECT_TIMER)
                     \* ends (0: no timer pending)
    shouldCloseRootInstance, \* per watcher
    cancelRequested, \* per watcher: token.isCancellationRequested
    opened,          \* per watcher: the openReconnectedDevEnv calls made so far
                     \* by the running pollDevEnvs call
    handled,         \* per window: number of handleRestart runs
    connecting,      \* per watcher: the openReconnectedDevEnv calls whose connect
                     \* command has not finished
    closeTimer,      \* per watcher: time at which the pending sleep(5000) of
                     \* openReconnectedDevEnv ends (0: none pending)
    last,            \* the step taken last and the message it showed
    call,            \* the TelemetryHelper call under way: its name and arguments
    result           \* what that call returned: << >> before it returns,
                     \* then the one-element sequence of the returned value

vars == << store, now, envId, restartHandled, pc, devenvs, todo, wake,
           shouldCloseRootInstance, cancelRequested, opened, handled,
           connecting, closeTimer, last, call, result >>

\* The state of the reconnection watcher and the state of the telemetry calls.
watcherVars == << store, now, envId, restartHandled, pc, devenvs, todo, wake,
                  shouldCloseRootInstance, cancelRequested, opened, handled,
                  connecting, closeTimer, last >>
callVars == << call, result >>

\* The state of the openReconnectedDevEnv calls that outlive pollDevEnvs.
openVars == << connecting, closeTimer >>

\* ------------------------------------------------------------ pure helpers
\* Variant: the window boundary counts as expired.
isExpired_AtBoundary(previousConnectionTime, t) ==
    t - previousConnectionTime >= MAX_RECONNECT_TIME

isExpired(previousConnectionTime, t) ==
    t - previousConnectionTime > MAX_RECONNECT_TIME

isTerminating(status) ==
    IF status = None THEN FALSE
    ELSE status = "FAILED" \/ status = "DELETING" \/ status = "DELETED"

getDevEnvName(alias, id) == IF alias # "" THEN alias ELSE id

\* Variant: the filter looks at expiry only.
filterInvalidDevEnvs_IgnoresClaim(d, t) ==
    LET drop == { id \in DOMAIN d : t - d[id].previousConnectionTimestamp > MAX_RECONNECT_TIME }
    IN  [id \in DOMAIN d \ drop |-> d[id]]

\* Variant: the filter keeps the records another watcher has claimed when
\* they are not expired.
filterInvalidDevEnvs_KeepsFreshClaims(d, t) ==
    LET drop == { id \in DOMAIN d : isExpired(d[id].previousConnectionTimestamp, t) }
    IN  [id \in DOMAIN d \ drop |-> d[id]]

\* Variant: the filter drops a record only when it is both expired and
\* claimed.
filterInvalidDevEnvs_DropsBoth(d, t) ==
    LET drop == { id \in DOMAIN d :
                    isExpired(d[id].previousConnectionTimestamp, t)
                    /\ d[id].attemptingReconnect }
    IN  [id \in DOMAIN d \ drop |-> d[id]]

filterInvalidDevEnvs(d, t) ==
    LET drop == { id \in DOMAIN d :
                    isExpired(d[id].previousConnectionTimestamp, t)
                    \/ d[id].attemptingReconnect }
    IN  [id \in DOMAIN d \ drop |-> d[id]]

\* Variant: the records are stored without touching the flag.
setWatchedDevEnvStatus_NoFlag(d, watchStatus) == d

\* Variant: the flag is always set, whatever watchStatus is.
setWatchedDevEnvStatus_AlwaysTrue(d, watchStatus) ==
    [id \in DOMAIN d |-> [d[id] EXCEPT !.attemptingReconnect = TRUE]]

\* The object after the loop of setWatchedDevEnvStatus; the same object is
\* what memento.update stores under the key.
setWatchedDevEnvStatus(d, watchStatus) ==
    [id \in DOMAIN d |-> [d[id] EXCEPT !.attemptingReconnect = watchStatus]]

\* Variant: the value read is stored back without the delete.
failDevEnv_NoDelete(curr, devenvId) == curr

\* The value failDevEnv stores, given the value it read.
failDevEnv(curr, devenvId) == Delete(curr, devenvId)

\* Variant: the saved record keeps the flag of the record it replaces.
saveReconnectionInformation_KeepsFlag(pendingReconnects, id, t) ==
    [k \in DOMAIN pendingReconnects \cup {id} |->
        IF k = id
        THEN DevEnvMemento(id, t, id \in DOMAIN pendingReconnects
                                  /\ pendingReconnects[id].attemptingReconnect)
        ELSE pendingReconnects[k]]

\* The value saveReconnectionInformation stores, given the value it read and
\* Date.now().
saveReconnectionInformation(pendingReconnects, id, t) ==
    [k \in DOMAIN pendingReconnects \cup {id} |->
        IF k = id THEN DevEnvMemento(id, t, FALSE) ELSE pendingReconnects[k]]

\* The value removeReconnectionInformation stores, given the value it read.
removeReconnectionInformation(pendingReconnects, id) == Delete(pendingReconnects, id)

\* Variant: the connect command gets the default workspace path.
openReconnectedDevEnv_DefaultWorkspace(id, devenv, closeRootInstance) ==
    [ id |-> id,
      org |-> devenv.spaceName,
      project |-> devenv.projectName,
      workspace |-> "/projects",
      closeRootInstance |-> closeRootInstance ]

\* Variant: the window is closed after every open.
openReconnectedDevEnv_AlwaysClose(id, devenv, closeRootInstance) ==
    [ id |-> id,
      org |-> devenv.spaceName,
      project |-> devenv.projectName,
      workspace |-> devenv.previousVscodeWorkspace,
      closeRootInstance |-> TRUE ]

\* The call openReconnectedDevEnv makes on the connect command.
openReconnectedDevEnv(id, devenv, closeRootInstance) ==
    [ id |-> id,
      org |-> devenv.spaceName,
      project |-> devenv.projectName,
      workspace |-> devenv.previousVscodeWorkspace,
      closeRootInstance |-> closeRootInstance ]

\* What a step is and what it showed to the user: progress.report,
\* showInformationMessage or showViewLogsMessage; NoMessage when it shows
\* nothing.
NoMessage == << >>
Step(act, h, id, msg) == [act |-> act, h |-> h, id |-> id, msg |-> msg]
\* A step of the environment (clock, user, timer).
Other == Step("other", None, None, NoMessage)

\* -------------------------------------------------------------------- Init
NoCall == [fn |-> None]
NoResult == << >>

InitWatchers ==
    /\ store \in Stores
    /\ now = StartTime
    /\ envId \in [Procs -> {None} \cup Ids]
    /\ envId["p1"] = None
    /\ envId["p2"] \in {None, "e1"}
    /\ restartHandled = [p \in Procs |-> FALSE]
    /\ pc = [h \in Handlers |-> "idle"]
    /\ devenvs = [h \in Handlers |-> EmptyRecord]
    /\ todo = [h \in Handlers |-> {}]
    /\ wake = [h \in Handlers |-> 0]
    /\ shouldCloseRootInstance = [h \in Handlers |-> FALSE]
    /\ cancelRequested = [h \in Handlers |-> FALSE]
    /\ opened = [h \in Handlers |-> << >>]
    /\ handled = [p \in Procs |-> 0]
    /\ connecting = [h \in Handlers |-> {}]
    /\ closeTimer = [h \in Handlers |-> 0]
    /\ last = Other

Init ==
    /\ InitWatchers
    /\ call = NoCall
    /\ result = NoResult

\* ----------------------------------------------------------------- actions
\* The environment advances the clock.
Tick ==
    /\ now < EndTime
    /\ now' = now + RECONNECT_TIMER
    /\ last' = Other
    /\ UNCHANGED << store, envId, restartHandled, pc, devenvs, todo, wake,
                    shouldCloseRootInstance, cancelRequested, opened, handled >>
    /\ UNCHANGED openVars
    /\ UNCHANGED callVars

\* The user dismisses the progress notification of a watcher.
Cancel(h) ==
    /\ pc[h] \in {"claim", "suspended", "tick"}
    /\ ~cancelRequested[h]
    /\ cancelRequested' = [cancelRequested EXCEPT ![h] = TRUE]
    /\ last' = Other
    /\ UNCHANGED << store, now, envId, restartHandled, pc, devenvs, todo,
                    wake, shouldCloseRootInstance, opened, handled >>
    /\ UNCHANGED openVars
    /\ UNCHANGED callVars

\* onDidChangeActiveConnection fires in the window of h: the callback runs up to
\* its await (or returns at the restartHandled test).
watchRestartingDevEnvs(h) ==
    /\ pc[h] = "idle"
    /\ h = "a2" => pc["a1"] # "idle"
    /\ IF restartHandled[WindowOf(h)]
       THEN /\ pc' = [pc EXCEPT ![h] = "done"]
            /\ last' = Step("ignored", h, None, NoMessage)
       ELSE /\ pc' = [pc EXCEPT ![h] = "awaitClient"]
            /\ last' = Step("signal", h, None, NoMessage)
    /\ UNCHANGED << store, now, envId, restartHandled, devenvs, todo, wake,
                    shouldCloseRootInstance, cancelRequested, opened, handled >>
    /\ UNCHANGED openVars
    /\ UNCHANGED callVars

\* handleRestart, branch envId !== undefined.
handleRestartRemote(h, env) ==
    /\ IF env \in DOMAIN store
       THEN /\ store' = Delete(store, env)
            /\ last' = Step("remote", h, env,
                            <<"reconnected", getDevEnvName(store[env].alias, env)>>)
       ELSE /\ last' = Step("remote", h, env, NoMessage)
            /\ UNCHANGED store
    /\ pc' = [pc EXCEPT ![h] = "done"]
    /\ UNCHANGED devenvs

\* Variant: the records that pass the filter are claimed in the store in the
\* step that reads it.
reconnectDevEnvs_ClaimsAtRead(h) ==
    LET pendingDevEnvs == store
        validDevEnvs == filterInvalidDevEnvs(pendingDevEnvs, now)
        devenvNames == { getDevEnvName(validDevEnvs[id].alias, id) : id \in DOMAIN validDevEnvs }
    IN  /\ IF DOMAIN validDevEnvs = {}
           THEN /\ pc' = [pc EXCEPT ![h] = "done"]
                /\ last' = Step("filter", h, None, NoMessage)
                /\ UNCHANGED << devenvs, store >>
           ELSE /\ pc' = [pc EXCEPT ![h] = "claim"]
                /\ devenvs' = [devenvs EXCEPT ![h] = validDevEnvs]
                /\ store' = [id \in DOMAIN store |->
                               IF id \in DOMAIN validDevEnvs
                               THEN [store[id] EXCEPT !.attemptingReconnect = TRUE]
                               ELSE store[id]]
                /\ last' = Step("filter", h, None, <<"restarting", devenvNames>>)

\* Variant: no early return on an empty filtered set.
reconnectDevEnvs_NoEarlyReturn(h) ==
    LET pendingDevEnvs == store
        validDevEnvs == filterInvalidDevEnvs(pendingDevEnvs, now)
        devenvNames == { getDevEnvName(validDevEnvs[id].alias, id) : id \in DOMAIN validDevEnvs }
    IN  /\ pc' = [pc EXCEPT ![h] = "claim"]
        /\ devenvs' = [devenvs EXCEPT ![h] = validDevEnvs]
        /\ last' = Step("filter", h, None, <<"restarting", devenvNames>>)
        /\ UNCHANGED store

\* reconnectDevEnvs: read, filter, and start the progress notification.
reconnectDevEnvs(h) ==
    LET pendingDevEnvs == store
        validDevEnvs == filterInvalidDevEnvs(pendingDevEnvs, now)
        devenvNames == { getDevEnvName(validDevEnvs[id].alias, id) : id \in DOMAIN validDevEnvs }
    IN  /\ IF DOMAIN validDevEnvs = {}
           THEN /\ pc' = [pc EXCEPT ![h] = "done"]
                /\ last' = Step("filter", h, None, NoMessage)
                /\ UNCHANGED devenvs
           ELSE /\ pc' = [pc EXCEPT ![h] = "claim"]
                /\ devenvs' = [devenvs EXCEPT ![h] = validDevEnvs]
                /\ last' = Step("filter", h, None, <<"restarting", devenvNames>>)
        /\ UNCHANGED store

\* Variant: the handler polls whatever envId is.
handleRestart_IgnoresEnvId(h, env) == reconnectDevEnvs(h)

handleRestart(h, env) ==
    IF env # None THEN handleRestartRemote(h, env) ELSE reconnectDevEnvs(h)

\* createClientFactory(authProvider)() resolves for handler h.
clientResolved(h, connected) ==
    /\ pc[h] = "awaitClient"
    /\ IF connected
       THEN /\ handleRestart(h, envId[WindowOf(h)])
            /\ restartHandled' = [restartHandled EXCEPT ![WindowOf(h)] = TRUE]
            /\ handled' = [handled EXCEPT ![WindowOf(h)] = @ + 1]
       ELSE /\ pc' = [pc EXCEPT ![h] = "done"]
            /\ last' = Step("notConnected", h, None, NoMessage)
            /\ UNCHANGED << store, restartHandled, devenvs, handled >>
    /\ UNCHANGED << now, envId, todo, wake, shouldCloseRootInstance,
                    cancelRequested, opened >>
    /\ UNCHANGED openVars
    /\ UNCHANGED callVars

\* pollDevEnvs up to the loop: the claim write.
pollDevEnvsClaim(h) ==
    /\ pc[h] = "claim"
    /\ LET d == setWatchedDevEnvStatus(devenvs[h], TRUE)
       IN  /\ devenvs' = [devenvs EXCEPT ![h] = d]
           /\ store' = d
           /\ shouldCloseRootInstance' =
                 [shouldCloseRootInstance EXCEPT ![h] = (Cardinality(DOMAIN d) = 1)]
    /\ pc' = [pc EXCEPT ![h] = "suspended"]
    /\ last' = Step("claim", h, None, NoMessage)
    /\ UNCHANGED << now, envId, restartHandled, todo, wake, cancelRequested,
                    opened, handled >>
    /\ UNCHANGED openVars
    /\ UNCHANGED callVars

\* Some window calls saveReconnectionInformation for id.
saveReconnectionInformationCall(id) ==
    /\ store' = saveReconnectionInformation(store, id, now)
    /\ last' = Step("save", None, id, NoMessage)
    /\ UNCHANGED << now, envId, restartHandled, pc, devenvs, todo, wake,
                    shouldCloseRootInstance, cancelRequested, opened, handled >>
    /\ UNCHANGED openVars
    /\ UNCHANGED callVars

\* Some window calls removeReconnectionInformation for id.
removeReconnectionInformationCall(id) ==
    /\ store' = removeReconnectionInformation(store, id)
    /\ last' = Step("remove", None, id, NoMessage)
    /\ UNCHANGED << now, envId, restartHandled, pc, devenvs, todo, wake,
                    shouldCloseRootInstance, cancelRequested, opened, handled >>
    /\ UNCHANGED openVars
    /\ UNCHANGED callVars

\* Time goes on beyond EndTime: the clock reading stays at EndTime (a record
\* that is not expired at EndTime is not followed to its expiry) and the
\* timers that were still running fire.
TickBeyond ==
    /\ now = EndTime
    /\ \E h \in Handlers : wake[h] > now \/ closeTimer[h] > now
    /\ wake' = [h \in Handlers |-> IF wake[h] > now THEN now ELSE wake[h]]
    /\ closeTimer' = [h \in Handlers |-> IF closeTimer[h] > now THEN now ELSE closeTimer[h]]
    /\ last' = Other
    /\ UNCHANGED << store, now, envId, restartHandled, pc, devenvs, todo,
                    shouldCloseRootInstance, cancelRequested, opened, handled,
                    connecting >>
    /\ UNCHANGED callVars

\* Variant: the loop head never looks at the cancellation token.
pollDevEnvsLoop_IgnoresToken(h) ==
    /\ pc[h] = "suspended"
    /\ now >= wake[h]
    /\ wake' = [wake EXCEPT ![h] = 0]
    /\ IF DOMAIN devenvs[h] = {}
       THEN /\ pc' = [pc EXCEPT ![h] = "done"]
            /\ last' = Step("exit", h, None, NoMessage)
            /\ shouldCloseRootInstance' = [shouldCloseRootInstance EXCEPT ![h] = FALSE]
            /\ cancelRequested' = [cancelRequested EXCEPT ![h] = FALSE]
            /\ UNCHANGED << store, devenvs, todo >>
       ELSE /\ todo' = [todo EXCEPT ![h] = DOMAIN devenvs[h]]
            /\ pc' = [pc EXCEPT ![h] = "tick"]
            /\ last' = Step("startTick", h, None, NoMessage)
            /\ UNCHANGED << store, devenvs, shouldCloseRootInstance, cancelRequested >>
    /\ opened' = [opened EXCEPT ![h] = IF pc'[h] = "done" THEN << >> ELSE @]
    /\ UNCHANGED << now, envId, restartHandled, handled >>
    /\ UNCHANGED openVars
    /\ UNCHANGED callVars

\* The loop resumes from an await (of the claim write, or of sleep once the
\* timer is due) at the head of the while loop: exit, honour cancellation,
\* or start a tick.
pollDevEnvsLoop(h) ==
    /\ pc[h] = "suspended"
    /\ now >= wake[h]
    /\ wake' = [wake EXCEPT ![h] = 0]
    /\ IF DOMAIN devenvs[h] = {}
       THEN /\ pc' = [pc EXCEPT ![h] = "done"]
            /\ last' = Step("exit", h, None, NoMessage)
            /\ shouldCloseRootInstance' = [shouldCloseRootInstance EXCEPT ![h] = FALSE]
            /\ cancelRequested' = [cancelRequested EXCEPT ![h] = FALSE]
            /\ UNCHANGED << store, devenvs, todo >>
       ELSE IF cancelRequested[h]
       THEN LET d == setWatchedDevEnvStatus(devenvs[h], FALSE)
            IN  /\ store' = d
                /\ devenvs' = [devenvs EXCEPT ![h] = EmptyRecord]
                /\ pc' = [pc EXCEPT ![h] = "done"]
                /\ last' = Step("cancel", h, None, NoMessage)
                /\ shouldCloseRootInstance' = [shouldCloseRootInstance EXCEPT ![h] = FALSE]
                /\ cancelRequested' = [cancelRequested EXCEPT ![h] = FALSE]
                /\ UNCHANGED todo
       ELSE /\ todo' = [todo EXCEPT ![h] = DOMAIN devenvs[h]]
            /\ pc' = [pc EXCEPT ![h] = "tick"]
            /\ last' = Step("startTick", h, None, NoMessage)
            /\ UNCHANGED << store, devenvs, shouldCloseRootInstance, cancelRequested >>
    /\ opened' = [opened EXCEPT ![h] = IF pc'[h] = "done" THEN << >> ELSE @]
    /\ UNCHANGED << now, envId, restartHandled, handled >>
    /\ UNCHANGED openVars
    /\ UNCHANGED callVars

\* Variant: the expiry test comes before the status tests.
pollDevEnvsQuery_ExpiryFirst(h, id, outcome) ==
    /\ pc[h] = "tick"
    /\ id \in todo[h]
    /\ LET details == devenvs[h][id]
           devenvName == getDevEnvName(details.alias, id)
       IN  IF outcome # QueryError /\ isExpired(details.previousConnectionTimestamp, now)
           THEN /\ last' = Step("expired", h, id, <<"expired", devenvName>>)
                /\ UNCHANGED << store, devenvs, opened, connecting >>
           ELSE IF outcome = QueryError
           THEN /\ store' = failDevEnv(store, id)
                /\ devenvs' = [devenvs EXCEPT ![h] = Delete(@, id)]
                /\ last' = Step("failed", h, id, <<"warning", devenvName>>)
                /\ UNCHANGED << opened, connecting >>
           ELSE IF outcome = "RUNNING"
           THEN /\ opened' = [opened EXCEPT ![h] =
                      Append(@, openReconnectedDevEnv(id, details, shouldCloseRootInstance[h]))]
                /\ connecting' = [connecting EXCEPT ![h] =
                      @ \cup {openReconnectedDevEnv(id, details, shouldCloseRootInstance[h])}]
                /\ devenvs' = [devenvs EXCEPT ![h] = Delete(@, id)]
                /\ last' = Step("running", h, id, <<"running", devenvName>>)
                /\ UNCHANGED store
           ELSE IF isTerminating(outcome)
           THEN /\ devenvs' = [devenvs EXCEPT ![h] = Delete(@, id)]
                /\ last' = Step("terminating", h, id, <<"terminating", devenvName>>)
                /\ UNCHANGED << store, opened, connecting >>
           ELSE /\ last' = Step("waiting", h, id, NoMessage)
                /\ UNCHANGED << store, devenvs, opened, connecting >>
    /\ todo' = [todo EXCEPT ![h] = @ \ {id}]
    /\ IF todo[h] = {id}
       THEN /\ pc' = [pc EXCEPT ![h] = "suspended"]
            /\ wake' = [wake EXCEPT ![h] = now + RECONNECT_TIMER]
       ELSE UNCHANGED << pc, wake >>
    /\ UNCHANGED << now, envId, restartHandled, shouldCloseRootInstance,
                    cancelRequested, handled, closeTimer >>
    /\ UNCHANGED callVars

\* One iteration of the for-in loop: the status query for id and what the
\* body does with its outcome (a status, or QueryError when the call throws).
\* After the last iteration sleep(RECONNECT_TIMER) starts.
pollDevEnvsQuery(h, id, outcome) ==
    /\ pc[h] = "tick"
    /\ id \in todo[h]
    /\ LET details == devenvs[h][id]
           devenvName == getDevEnvName(details.alias, id)
       IN  IF outcome = QueryError
           THEN /\ store' = failDevEnv(store, id)
                /\ devenvs' = [devenvs EXCEPT ![h] = Delete(@, id)]
                /\ last' = Step("failed", h, id, <<"warning", devenvName>>)
                /\ UNCHANGED << opened, connecting >>
           ELSE IF outcome = "RUNNING"
           THEN /\ opened' = [opened EXCEPT ![h] =
                      Append(@, openReconnectedDevEnv(id, details, shouldCloseRootInstance[h]))]
                /\ connecting' = [connecting EXCEPT ![h] =
                      @ \cup {openReconnectedDevEnv(id, details, shouldCloseRootInstance[h])}]
                /\ devenvs' = [devenvs EXCEPT ![h] = Delete(@, id)]
                /\ last' = Step("running", h, id, <<"running", devenvName>>)
                /\ UNCHANGED store
           ELSE IF isTerminating(outcome)
           THEN /\ devenvs' = [devenvs EXCEPT ![h] = Delete(@, id)]
                /\ last' = Step("terminating", h, id, <<"terminating", devenvName>>)
                /\ UNCHANGED << store, opened, connecting >>
           ELSE IF isExpired(details.previousConnectionTimestamp, now)
           THEN /\ last' = Step("expired", h, id, <<"expired", devenvName>>)
                /\ UNCHANGED << store, devenvs, opened, connecting >>
           ELSE /\ last' = Step("waiting", h, id, NoMessage)
                /\ UNCHANGED << store, devenvs, opened, connecting >>
    /\ todo' = [todo EXCEPT ![h] = @ \ {id}]
    /\ IF todo[h] = {id}
       THEN /\ pc' = [pc EXCEPT ![h] = "suspended"]
            /\ wake' = [wake EXCEPT ![h] = now + RECONNECT_TIMER]
       ELSE UNCHANGED << pc, wake >>
    /\ UNCHANGED << now, envId, restartHandled, shouldCloseRootInstance,
                    cancelRequested, handled, closeTimer >>
    /\ UNCHANGED callVars

\* openReconnectedDevEnv after its await: the connect command of call c has
\* finished (ok) or thrown; a finished command of a call with
\* closeRootInstance starts the sleep that precedes closeWindow.
openReconnectedDevEnvResume(h, c, ok) ==
    /\ c \in connecting[h]
    /\ connecting' = [connecting EXCEPT ![h] = @ \ {c}]
    /\ IF ok /\ c.closeRootInstance
       THEN closeTimer' = [closeTimer EXCEPT ![h] = now + CLOSE_DELAY]
       ELSE UNCHANGED closeTimer
    /\ last' = Step(IF ok THEN "connected" ELSE "connectFailed", h, c.id, NoMessage)
    /\ UNCHANGED << store, now, envId, restartHandled, pc, devenvs, todo, wake,
                    shouldCloseRootInstance, cancelRequested, opened, handled >>
    /\ UNCHANGED callVars

\* The sleep of openReconnectedDevEnv is over: closeWindow is executed in the
\* window of the watcher.
closeWindow(h) ==
    /\ closeTimer[h] # 0
    /\ now >= closeTimer[h]
    /\ closeTimer' = [closeTimer EXCEPT ![h] = 0]
    /\ last' = Step("closeWindow", h, None, NoMessage)
    /\ UNCHANGED << store, now, envId, restartHandled, pc, devenvs, todo, wake,
                    shouldCloseRootInstance, cancelRequested, opened, handled,
                    connecting >>
    /\ UNCHANGED callVars

\* Two windows share the store and each sees one connection change; window
\* p2 is a local window or the remote window of e1.
TwoWindows == {"a1", "b1"}

Next ==
    \/ Tick
    \/ \E h \in TwoWindows : Cancel(h)
    \/ \E h \in TwoWindows : watchRestartingDevEnvs(h)
    \/ \E h \in TwoWindows, connected \in BOOLEAN : clientResolved(h, connected)
    \/ \E h \in TwoWindows : pollDevEnvsClaim(h)
    \/ \E h \in TwoWindows : pollDevEnvsLoop(h)
    \/ \E h \in TwoWindows, id \in Ids, outcome \in Statuses \cup {QueryError} :
          pollDevEnvsQuery(h, id, outcome)

Spec == Init /\ [][Next]_vars

\* One window sees two connection changes; the store holds at most the
\* record of e1.
OneWindow == {"a1", "a2"}

InitTrigger ==
    /\ Init
    /\ DOMAIN store \subseteq {"e1"}
    /\ envId["p2"] = None

NextTrigger ==
    \/ Tick
    \/ \E h \in OneWindow : Cancel(h)
    \/ \E h \in OneWindow : watchRestartingDevEnvs(h)
    \/ \E h \in OneWindow, connected \in BOOLEAN : clientResolved(h, connected)
    \/ \E h \in OneWindow : pollDevEnvsClaim(h)
    \/ \E h \in OneWindow : pollDevEnvsLoop(h)
    \/ \E h \in OneWindow, id \in Ids, outcome \in Statuses \cup {QueryError} :
          pollDevEnvsQuery(h, id, outcome)

SpecTrigger == InitTrigger /\ [][NextTrigger]_vars

\* One watcher in one local window, together with what its
\* openReconnectedDevEnv calls do after pollDevEnvs has gone on.
Watcher == {"a1"}

InitWatcher ==
    /\ Init
    /\ envId["p2"] = None

NextWatcher ==
    \/ Tick
    \/ \E h \in Watcher : Cancel(h)
    \/ \E h \in Watcher : watchRestartingDevEnvs(h)
    \/ \E h \in Watcher, connected \in BOOLEAN : clientResolved(h, connected)
    \/ \E h \in Watcher : pollDevEnvsClaim(h)
    \/ \E h \in Watcher : pollDevEnvsLoop(h)
    \/ \E h \in Watcher, id \in Ids, outcome \in Statuses \cup {QueryError} :
          pollDevEnvsQuery(h, id, outcome)
    \/ \E h \in Watcher, ok \in BOOLEAN : \E c \in connecting[h] :
          openReconnectedDevEnvResume(h, c, ok)
    \/ \E h \in Watcher : closeWindow(h)

SpecWatcher == InitWatcher /\ [][NextWatcher]_vars

\* The same watcher over unbounded time: the event loop runs every
\* continuation that is ready, every timer fires, and every status query is
\* answered (with any outcome).
NextForever == NextWatcher \/ TickBeyond

SpecForever ==
    /\ InitWatcher
    /\ [][NextForever]_vars
    /\ WF_vars(Tick)
    /\ WF_vars(TickBeyond)
    /\ \A h \in Watcher :
          /\ WF_vars(\E connected \in BOOLEAN : clientResolved(h, connected))
          /\ WF_vars(pollDevEnvsClaim(h))
          /\ WF_vars(pollDevEnvsLoop(h))
          /\ WF_vars(\E id \in Ids, outcome \in Statuses \cup {QueryError} :
                        pollDevEnvsQuery(h, id, outcome))

\* One watcher in a local window, while other windows save and remove
\* reconnection information in the same store.
NextStore ==
    \/ Tick
    \/ \E h \in Watcher : Cancel(h)
    \/ \E h \in Watcher : watchRestartingDevEnvs(h)
    \/ \E h \in Watcher, connected \in BOOLEAN : clientResolved(h, connected)
    \/ \E h \in Watcher : pollDevEnvsClaim(h)
    \/ \E h \in Watcher : pollDevEnvsLoop(h)
    \/ \E h \in Watcher, id \in Ids, outcome \in Statuses \cup {QueryError} :
          pollDevEnvsQuery(h, id, outcome)
    \/ \E id \in Ids : saveReconnectionInformationCall(id)
    \/ \E id \in Ids : removeReconnectionInformationCall(id)

SpecStore == InitWatcher /\ [][NextStore]_vars

\* ----------------------------------------------------- suggestion telemetry
\* TelemetryHelper.getSuggestionState and aggregateUserDecisionByRequest. The
\* class is not among the source files; the two functions are written from
\* their description, and the cases of telemetryHelper.test.ts are kept as
\* tables next to them.
MaxSuggestions == 3
MaxEvents == 4

CompletionTypes == {"Line", "Block"}
RecordedStates == {"Showed", "Discard", "Filter", "Empty"}
SuggestionStates == {"Accept", "Reject", "Discard", "Ignore", "Unseen", "Filter", "Empty"}
SuggestionIndexes == 0 .. MaxSuggestions - 1
AcceptIndexes == -1 .. MaxSuggestions - 1

\* recommendationSuggestionState: suggestion index -> recorded state, for the
\* suggestions that have one.
StateMaps == UNION { [k -> RecordedStates] : k \in SUBSET SuggestionIndexes }

\* Variant: acceptIndex is looked at before the recorded state.
getSuggestionState_AcceptIndexFirst(i, acceptIndex, states) ==
    IF i \notin DOMAIN states THEN "Unseen"
    ELSE IF acceptIndex = -1 THEN "Reject"
    ELSE IF states[i] \in {"Discard", "Filter", "Empty"} THEN states[i]
    ELSE IF i = acceptIndex THEN "Accept"
    ELSE "Ignore"

getSuggestionState(i, acceptIndex, states) ==
    IF i \notin DOMAIN states THEN "Unseen"
    ELSE IF states[i] \in {"Discard", "Filter", "Empty"} THEN states[i]
    ELSE IF acceptIndex = -1 THEN "Reject"
    ELSE IF i = acceptIndex THEN "Accept"
    ELSE "Ignore"

\* The cases of describe('getSuggestionState').
getSuggestionStateTests ==
    { [i |-> 0, acceptIndex |-> -1, states |-> (0 :> "Discard"), expected |-> "Discard"],
      [i |-> 0, acceptIndex |-> -1, states |-> (0 :> "Showed"),  expected |-> "Reject"],
      [i |-> 0, acceptIndex |-> 0,  states |-> (0 :> "Showed"),  expected |-> "Accept"],
      [i |-> 0, acceptIndex |-> 1,  states |-> (0 :> "Showed"),  expected |-> "Ignore"],
      [i |-> 0, acceptIndex |-> 1,  states |-> (1 :> "Showed"),  expected |-> "Unseen"],
      [i |-> 1, acceptIndex |-> 1,  states |-> (1 :> "Showed"),  expected |-> "Accept"],
      [i |-> 0, acceptIndex |-> 1,  states |-> (0 :> "Filter"),  expected |-> "Filter"],
      [i |-> 0, acceptIndex |-> 1,  states |-> (0 :> "Empty"),   expected |-> "Empty"] }

\* aUserDecision(completionType, index, suggestionState); the index is the
\* position in the list.
aUserDecision(completionType, suggestionState) ==
    [ codewhispererCompletionType |-> completionType,
      codewhispererSuggestionState |-> suggestionState ]

UserDecisions == { aUserDecision(t, st) : t \in CompletionTypes, st \in SuggestionStates }
DecisionLists == UNION { [1 .. n -> UserDecisions] : n \in 1 .. MaxEvents }

\* Variant: the request takes the type and the state of its first decision.
aggregateUserDecisionByRequest_FirstDecision(events) == { events[1] }

\* The type and state the aggregated event of a request can have. Accept
\* wins, then Reject; what a request without Accept and Reject aggregates to
\* is described nowhere and is left open, as is the type of a rejected
\* request with decisions of both types.
aggregateUserDecisionByRequest(events) ==
    LET ks == 1 .. Len(events)
        accepted == { k \in ks : events[k].codewhispererSuggestionState = "Accept" }
        rejected == { k \in ks : events[k].codewhispererSuggestionState = "Reject" }
        types == { events[k].codewhispererCompletionType : k \in ks }
    IN  IF accepted # {}
        THEN { aUserDecision(events[k].codewhispererCompletionType, "Accept") : k \in accepted }
        ELSE IF rejected # {}
        THEN { aUserDecision(t, "Reject") : t \in types }
        ELSE { aUserDecision(t, st) : t \in types, st \in SuggestionStates \ {"Accept", "Reject"} }

\* The cases of describe('aggregateUserDecisionByRequest').
aggregateUserDecisionByRequestTests ==
    { [ events |-> << aUserDecision("Line", "Accept"), aUserDecision("Line", "Discard"),
                      aUserDecision("Block", "Ignore"), aUserDecision("Block", "Ignore") >>,
        expected |-> aUserDecision("Line", "Accept") ],
      [ events |-> << aUserDecision("Line", "Discard"), aUserDecision("Line", "Reject"),
                      aUserDecision("Line", "Unseen"), aUserDecision("Line", "Unseen") >>,
        expected |-> aUserDecision("Line", "Reject") ],
      [ events |-> << aUserDecision("Block", "Discard"), aUserDecision("Block", "Accept"),
                      aUserDecision("Block", "Discard"), aUserDecision("Block", "Ignore") >>,
        expected |-> aUserDecision("Block", "Accept") ] }

\* The watcher is idle while a telemetry call is looked at.
InitIdle ==
    /\ InitWatchers
    /\ store = EmptyRecord
    /\ envId["p2"] = None
    /\ result = NoResult

InitSuggestionState ==
    /\ InitIdle
    /\ call \in { [fn |-> "getSuggestionState", i |-> i, acceptIndex |-> a, states |-> m] :
                     i \in SuggestionIndexes, a \in AcceptIndexes, m \in StateMaps }

getSuggestionStateCall ==
    /\ call.fn = "getSuggestionState"
    /\ result = NoResult
    /\ result' = << getSuggestionState(call.i, call.acceptIndex, call.states) >>
    /\ UNCHANGED call
    /\ UNCHANGED watcherVars

NextSuggestionState == getSuggestionStateCall

SpecSuggestionState == InitSuggestionState /\ [][NextSuggestionState]_vars

InitAggregate ==
    /\ InitIdle
    /\ call \in { [fn |-> "aggregateUserDecisionByRequest", events |-> e] : e \in DecisionLists }

aggregateUserDecisionByRequestCall ==
    /\ call.fn = "aggregateUserDecisionByRequest"
    /\ result = NoResult
    /\ \E aggregated \in aggregateUserDecisionByRequest(call.events) :
          result' = << aggregated >>
    /\ UNCHANGED call
    /\ UNCHANGED watcherVars

NextAggregate == aggregateUserDecisionByRequestCall

SpecAggregate == InitAggregate /\ [][NextAggregate]_vars

\* ------------------------------------------------------------- zip paths
\* getPathsFromZipFilePath and the loop body of registerNewFiles. Strings are
\* sequences of characters; Sep is path.sep.
MaxPathLen == 3

Sep == "/"
PathChars == {"a", "b", Sep}
ZipFilePaths == UNION { [1 .. n -> PathChars] : n \in 0 .. MaxPathLen }

\* String.prototype.indexOf for one character: the 0-based position of its
\* first occurrence, -1 when there is none.
indexOf(str, ch) ==
    IF \E i \in 1 .. Len(str) : str[i] = ch
    THEN (CHOOSE i \in 1 .. Len(str) :
             str[i] = ch /\ \A j \in 1 .. i - 1 : str[j] # ch) - 1
    ELSE -1

\* String.prototype.substring(start, end): both arguments are clamped to
\* 0 .. length and swapped when start > end.
substring(str, start, end) ==
    LET clamp(n) == IF n < 0 THEN 0 ELSE IF n > Len(str) THEN Len(str) ELSE n
        lo == IF clamp(start) <= clamp(end) THEN clamp(start) ELSE clamp(end)
        hi == IF clamp(start) <= clamp(end) THEN clamp(end) ELSE clamp(start)
    IN  SubSeq(str, lo + 1, hi)

\* Two workspace folders; WorkspaceFolders[0] is the one with index 0.
WorkspaceFolders == {"folder0", "folder1"}
FolderIndex(folder) == IF folder = "folder0" THEN 0 ELSE 1
FolderName(folder) == IF folder = "folder0" THEN << "a" >> ELSE << "b" >>

\* workspacesByPrefix: undefined (None) with a single workspace folder,
\* otherwise a map from prefix to folder. The prefixes are an input (they
\* come from getWorkspaceFoldersByPrefixes).
Prefixes == { << "a" >>, << "b" >> }
WorkspacesByPrefix == UNION { [ks -> WorkspaceFolders] : ks \in SUBSET Prefixes }

\* workspacesByPrefix[Object.values(workspacesByPrefix)
\*     .find((val) => val.index === 0)?.name ?? '']
FolderOfFirstName(workspacesByPrefix) ==
    LET first == { k \in DOMAIN workspacesByPrefix : FolderIndex(workspacesByPrefix[k]) = 0 }
        key == IF first = {} THEN << >> ELSE FolderName("folder0")
    IN  IF key \in DOMAIN workspacesByPrefix THEN workspacesByPrefix[key] ELSE None

PathInfo(status, folder, relativePath) ==
    [ status |-> status, workspaceFolder |-> folder, relativePath |-> relativePath ]

\* What getPathsFromZipFilePath returns (without absolutePath), or that it
\* throws.
getPathsFromZipFilePath(zipFilePath, prefixed, workspacesByPrefix) ==
    IF ~prefixed
    THEN PathInfo("ok", "folder0", zipFilePath)
    ELSE LET prefix == substring(zipFilePath, 0, indexOf(zipFilePath, Sep))
             workspaceFolder ==
                 IF prefix \in DOMAIN workspacesByPrefix
                 THEN workspacesByPrefix[prefix]
                 ELSE FolderOfFirstName(workspacesByPrefix)
         IN  IF workspaceFolder = None
             THEN PathInfo("throws", None, << >>)
             ELSE PathInfo("ok", workspaceFolder,
                           substring(zipFilePath, Len(prefix) + 1, Len(zipFilePath)))

\* What the loop body of registerNewFiles pushes for one file (folder and
\* relative path), or that it skips the file.
registerNewFiles(zipFilePath, prefixed, workspaceFolderPrefixes) ==
    LET prefix == IF ~prefixed THEN << >>
                  ELSE substring(zipFilePath, 0, indexOf(zipFilePath, Sep))
        folder == IF ~prefixed THEN "folder0"
                  ELSE IF prefix \in DOMAIN workspaceFolderPrefixes
                  THEN workspaceFolderPrefixes[prefix]
                  ELSE FolderOfFirstName(workspaceFolderPrefixes)
    IN  IF folder = None
        THEN PathInfo("skipped", None, << >>)
        ELSE PathInfo("ok", folder,
                      substring(zipFilePath,
                                IF ~prefixed THEN 0
                                ELSE IF Len(prefix) > 0 THEN Len(prefix) + 1 ELSE 0,
                                Len(zipFilePath)))

InitPaths ==
    /\ InitIdle
    /\ call \in { [fn |-> "paths", zipFilePath |-> z, prefixed |-> b, workspacesByPrefix |-> m] :
                     z \in ZipFilePaths, b \in BOOLEAN, m \in WorkspacesByPrefix }
    /\ call.prefixed \/ call.workspacesByPrefix = << >>

Returned(fn) == \E i \in 1 .. Len(result) : result[i].fn = fn
ReturnOf(fn) == (CHOOSE i \in 1 .. Len(result) : result[i].fn = fn)

getPathsFromZipFilePathCall ==
    /\ call.fn = "paths"
    /\ ~Returned("getPathsFromZipFilePath")
    /\ result' = Append(result,
          [ fn |-> "getPathsFromZipFilePath",
            value |-> getPathsFromZipFilePath(call.zipFilePath, call.prefixed,
                                              call.workspacesByPrefix) ])
    /\ UNCHANGED call
    /\ UNCHANGED watcherVars

registerNewFilesCall ==
    /\ call.fn = "paths"
    /\ ~Returned("registerNewFiles")
    /\ result' = Append(result,
          [ fn |-> "registerNewFiles",
            value |-> registerNewFiles(call.zipFilePath, call.prefixed,
                                       call.workspacesByPrefix) ])
    /\ UNCHANGED call
    /\ UNCHANGED watcherVars

NextPaths == getPathsFromZipFilePathCall \/ registerNewFilesCall

SpecPaths == InitPaths /\ [][NextPaths]_vars

\* ------------------------------------------------------- prepareRepoData
\* The loop of prepareRepoData over the collected files. A file has a size,
\* is a code file or not, and is present, missing when stat is called, or
\* deleted between stat and zip.addLocalFile.
MaxFiles == 2
MaxFileSize == 2

\* The imported limit, scaled to the sizes of the model.
maxFileSizeBytes == 2
FileSizes == 0 .. MaxFileSize
FileFates == {"present", "missingAtStat", "missingAtZip"}
RepoFiles == [ size : FileSizes, isCodeFile : BOOLEAN, fate : FileFates ]
FileLists == UNION { [1 .. n -> RepoFiles] : n \in 0 .. MaxFiles }

InitPrepare ==
    /\ InitIdle
    /\ call \in { [fn |-> "prepareRepoData", files |-> fs] : fs \in FileLists }

\* collectFiles has returned, totalBytes = 0 and the zip is empty.
prepareRepoDataCollect ==
    /\ call.fn = "prepareRepoData"
    /\ result = NoResult
    /\ result' = << [ next |-> 1, totalBytes |-> 0, zip |-> {}, reported |-> << >> ] >>
    /\ UNCHANGED call
    /\ UNCHANGED watcherVars

\* totalBytes after an iteration that got past the size and code file test:
\* the size is added before zip.addLocalFile is tried.
prepareRepoDataCount(file, totalBytes) ==
    totalBytes + file.size

\* One iteration of the loop over files.
prepareRepoDataFile ==
    /\ call.fn = "prepareRepoData"
    /\ result # NoResult
    /\ result[1].reported = << >>
    /\ result[1].next <= Len(call.files)
    /\ LET i == result[1].next
           file == call.files[i]
           skipped == \/ file.fate = "missingAtStat"
                      \/ file.size >= maxFileSizeBytes
                      \/ ~file.isCodeFile
       IN  result' = << [ result[1] EXCEPT
               !.next = i + 1,
               !.totalBytes = IF skipped THEN @ ELSE prepareRepoDataCount(file, @),
               !.zip = IF skipped \/ file.fate = "missingAtZip" THEN @ ELSE @ \cup {i} ] >>
    /\ UNCHANGED call
    /\ UNCHANGED watcherVars

\* telemetry.setRepositorySize(totalBytes) and
\* span.record({ amazonqRepositorySize: totalBytes }) after the loop.
prepareRepoDataReport ==
    /\ call.fn = "prepareRepoData"
    /\ result # NoResult
    /\ result[1].reported = << >>
    /\ result[1].next > Len(call.files)
    /\ result' = << [ result[1] EXCEPT !.reported = << result[1].totalBytes >> ] >>
    /\ UNCHANGED call
    /\ UNCHANGED watcherVars

NextPrepare == prepareRepoDataCollect \/ prepareRepoDataFile \/ prepareRepoDataReport

SpecPrepare == InitPrepare /\ [][NextPrepare]_vars

\* ---------------------------------------------------------- validateName
\* Names are character sequences: a head of up to MaxHeadLen arbitrary
\* characters followed by no letters or by enough letters to reach the
\* maximum length or pass it by one.
MaxHeadLen == 4

MIN_NAME_LENGTH == 4
MAX_NAME_LENGTH == 40

NameChars == {"a", "1", "_", "-", " ", "!"}
\* [A-Za-z0-9-_]
GoodNameChars == {"a", "1", "_", "-"}
\* \s
Whitespace == {" "}

Heads == UNION { [1 .. n -> NameChars] : n \in 0 .. MaxHeadLen }
Padding == {0, MAX_NAME_LENGTH - MaxHeadLen, MAX_NAME_LENGTH - MaxHeadLen + 1}
Names == { h \o [i \in 1 .. k |-> "a"] : h \in Heads, k \in Padding }

validationTooShort == "Service names must be at least 4 characters"
validationExceeds == "Service names cannot be more than 40 characters"
validationWhitespace == "Service names cannot contain whitespace"
validationBadChar == "Invalid character(s): {0}"

Invalid(message, chars) == [ message |-> message, chars |-> chars ]
Valid == Invalid(None, << >>)

\* Array.from(new Set(matches)): the distinct elements in the order of their
\* first occurrence.
RECURSIVE Distinct(_)
Distinct(matches) ==
    IF matches = << >> THEN << >>
    ELSE LET init == Distinct(SubSeq(matches, 1, Len(matches) - 1))
             x == matches[Len(matches)]
         IN  IF \E i \in 1 .. Len(init) : init[i] = x THEN init ELSE Append(init, x)

\* name.match(badNameRegExp), with name[0] put in front when it is '_' or '-'.
badNameMatches(name) ==
    LET isBad(c) == c \notin GoodNameChars
        matches == SelectSeq(name, isBad)
    IN  IF name[1] \in {"_", "-"} THEN << name[1] >> \o matches ELSE matches

validateName_BadCharBeforeWhitespace(name) ==
    IF Len(name) = 0 \/ Len(name) < MIN_NAME_LENGTH THEN Invalid(validationTooShort, << >>)
    ELSE IF Len(name) > MAX_NAME_LENGTH THEN Invalid(validationExceeds, << >>)
    ELSE IF Len(badNameMatches(name)) > 0
         THEN Invalid(validationBadChar, Distinct(badNameMatches(name)))
    ELSE IF \E i \in 1 .. Len(name) : name[i] \in Whitespace
         THEN Invalid(validationWhitespace, << >>)
    ELSE Valid

validateName(name) ==
    IF Len(name) = 0 \/ Len(name) < MIN_NAME_LENGTH THEN Invalid(validationTooShort, << >>)
    ELSE IF Len(name) > MAX_NAME_LENGTH THEN Invalid(validationExceeds, << >>)
    ELSE IF \E i \in 1 .. Len(name) : name[i] \in Whitespace
         THEN Invalid(validationWhitespace, << >>)
    ELSE IF Len(badNameMatches(name)) > 0
         THEN Invalid(validationBadChar, Distinct(badNameMatches(name)))
    ELSE Valid

InitValidate ==
    /\ InitIdle
    /\ call \in { [fn |-> "validateName", name |-> n] : n \in Names }

validateNameCall ==
    /\ call.fn = "validateName"
    /\ result = NoResult
    /\ result' = << validateName(call.name) >>
    /\ UNCHANGED call
    /\ UNCHANGED watcherVars

NextValidate == validateNameCall

SpecValidate == InitValidate /\ [][NextValidate]_vars

\* ------------------------------------------------------------ vocabulary
\* The steps in which a watcher issues a status query, by what the loop body
\* did with the answer.
QuerySteps == {"failed", "running", "terminating", "expired", "waiting"}

IsStep(st, act, h) == st.act = act /\ st.h = h
IsQuery(st, h, id) == st.act \in QuerySteps /\ st.h = h /\ st.id = id

\* h is inside pollDevEnvs or about to enter it.
Watching(h) == pc[h] \in {"claim", "suspended", "tick"}

\* Number of openReconnectedDevEnv calls the running poll of h made for id.
OpenCount(h, id) == Cardinality({i \in 1 .. Len(opened[h]) : opened[h][i].id = id})

NameOf(id) == IF AliasOf(id) = "" THEN id ELSE AliasOf(id)

\* ---------------------------------------------------------------- claims
\* C1: a record that already has attemptingReconnect = true when
\* reconnectDevEnvs reads the store is not in the working set of that call,
\* and the call issues no status query and no open for it: queries and opens
\* are issued only for records of the working set, and the working set gains
\* no record after the filter.
C1_ClaimedExcluded ==
    [][\A h \in Handlers :
         /\ IsStep(last', "filter", h) =>
               \A id \in DOMAIN store :
                   store[id].attemptingReconnect => id \notin DOMAIN devenvs'[h]
         /\ \A id \in Ids :
               /\ IsQuery(last', h, id) => id \in DOMAIN devenvs[h]
               /\ OpenCount(h, id)' > OpenCount(h, id) => id \in DOMAIN devenvs[h]
               /\ (Watching(h) /\ id \notin DOMAIN devenvs[h]) => id \notin DOMAIN devenvs'[h]
      ]_vars

\* The filter has just run with an already claimed record in the store next
\* to a record it kept.
C1_Witness ==
    \E h \in Handlers :
       /\ IsStep(last, "filter", h)
       /\ pc[h] = "claim"
       /\ \E id \in DOMAIN store \ DOMAIN devenvs[h] : store[id].attemptingReconnect

\* C2: the working set of reconnectDevEnvs is exactly the records of the
\* store that are unclaimed and within the reconnect window at filter time
\* (now - previousConnectionTimestamp <= MAX_RECONNECT_TIME, the boundary
\* included), and the claim write that follows writes that set only.
C2_WindowFilter ==
    [][\A h \in Handlers :
         /\ IsStep(last', "filter", h) =>
               DOMAIN devenvs'[h] =
                  { id \in DOMAIN store :
                       /\ now - store[id].previousConnectionTimestamp <= MAX_RECONNECT_TIME
                       /\ ~store[id].attemptingReconnect }
         /\ IsStep(last', "claim", h) =>
               { id \in DOMAIN store' : store'[id].attemptingReconnect } = DOMAIN devenvs[h]
      ]_vars

\* The filter kept a record exactly at the window boundary and dropped one
\* that is one millisecond older.
C2_Witness ==
    \E h \in Handlers :
       /\ IsStep(last, "filter", h)
       /\ \E id \in DOMAIN devenvs[h] :
             now - store[id].previousConnectionTimestamp = MAX_RECONNECT_TIME
       /\ \E id \in DOMAIN store \ DOMAIN devenvs[h] :
             /\ ~store[id].attemptingReconnect
             /\ now - store[id].previousConnectionTimestamp = MAX_RECONNECT_TIME + 1

\* C3: the claim write stores every record of the working set with
\* attemptingReconnect = true, and a watcher issues a status query for a
\* record only after its own claim write (which is what sets the flag in the
\* watcher's copy of the record).
C3_ClaimBeforePoll ==
    [][\A h \in Handlers :
         /\ IsStep(last', "claim", h) =>
               \A id \in DOMAIN devenvs[h] :
                   id \in DOMAIN store' /\ store'[id].attemptingReconnect
         /\ \A id \in Ids :
               IsQuery(last', h, id) =>
                   id \in DOMAIN devenvs[h] /\ devenvs[h][id].attemptingReconnect
      ]_vars

\* A status query was answered while the record is still claimed in the store.
C3_Witness ==
    \E h \in Handlers, id \in Ids :
       /\ IsQuery(last, h, id)
       /\ id \in DOMAIN store
       /\ store[id].attemptingReconnect

\* C4 (as claimed): when the status query of a working-set record returns a
\* terminating status (FAILED, DELETING, DELETED), after that step the record
\* is in neither the working set nor the persisted store, and no open was
\* invoked for it.
C4_TerminatingRemovedEverywhere ==
    [][\A h \in Handlers, id \in Ids :
         IsStep(last', "terminating", h) /\ last'.id = id =>
            /\ id \notin DOMAIN devenvs'[h]
            /\ id \notin DOMAIN store'
            /\ opened'[h] = opened[h]
      ]_vars

\* C5: when the status query of a working-set record returns RUNNING, the
\* watcher calls openReconnectedDevEnv for it once (it had not called it for
\* that record before, and the record leaves the working set in the same
\* step and never comes back, so it is not queried or opened again), with
\* the workspace path saved for that record, and the step leaves the
\* persisted store as it is.
C5_RunningOpensOnce ==
    [][\A h \in Handlers, id \in Ids :
         /\ IsStep(last', "running", h) /\ last'.id = id =>
               /\ OpenCount(h, id) = 0
               /\ opened'[h] = Append(opened[h], opened'[h][Len(opened'[h])])
               /\ opened'[h][Len(opened'[h])].id = id
               /\ opened'[h][Len(opened'[h])].workspace = WorkspaceOf(id)
               /\ id \notin DOMAIN devenvs'[h]
               /\ id \notin todo'[h]
               /\ store' = store
         /\ OpenCount(h, id)' > OpenCount(h, id) => IsStep(last', "running", h) /\ last'.id = id
         /\ IsQuery(last', h, id) => id \in DOMAIN devenvs[h]
         /\ (Watching(h) /\ id \notin DOMAIN devenvs[h]) => id \notin DOMAIN devenvs'[h]
      ]_vars

\* A RUNNING answer has just been handled for the record whose saved
\* workspace is not the default one, while the record is still in the store.
C5_Witness ==
    \E h \in Handlers :
       /\ IsStep(last, "running", h)
       /\ last.id = "e2"
       /\ OpenCount(h, "e2") = 1
       /\ "e2" \in DOMAIN store

\* C6 (as claimed): when the queried status of a working-set record is
\* neither running nor terminating and the record is past the reconnect
\* window, the step reports expiry and removes the record from the working
\* set, and leaves it in the persisted store.
C6_ExpiredLeavesWorkingSet ==
    [][\A h \in Handlers, id \in Ids :
         IsStep(last', "expired", h) /\ last'.id = id =>
            /\ last'.msg = <<"expired", NameOf(id)>>
            /\ id \notin DOMAIN devenvs'[h]
            /\ store' = store
      ]_vars

\* C7: when the status query of a working-set record throws, the record is
\* removed from the working set and from the persisted store and a warning
\* naming it is shown; every other record is as before in the store and in
\* the working set, and the records the tick has not visited yet are still
\* to be visited (the loop goes on).
C7_QueryErrorIsLocal ==
    [][\A h \in Handlers, id \in Ids :
         IsStep(last', "failed", h) /\ last'.id = id =>
            /\ id \notin DOMAIN devenvs'[h]
            /\ id \notin DOMAIN store'
            /\ last'.msg = <<"warning", NameOf(id)>>
            /\ DOMAIN store' = DOMAIN store \ {id}
            /\ \A o \in DOMAIN store' : store'[o] = store[o]
            /\ DOMAIN devenvs'[h] = DOMAIN devenvs[h] \ {id}
            /\ \A o \in DOMAIN devenvs'[h] : devenvs'[h][o] = devenvs[h][o]
            /\ todo'[h] = todo[h] \ {id}
            /\ todo'[h] # {} => pc'[h] = "tick"
            /\ opened'[h] = opened[h]
      ]_vars

\* A query error has just been handled while another record of the working
\* set is still to be visited in the same tick and the store holds it.
C7_Witness ==
    \E h \in Handlers :
       /\ last.act = "failed" /\ last.h = h
       /\ pc[h] = "tick"
       /\ \E o \in todo[h] : o # last.id /\ o \in DOMAIN store

\* C8: when the loop head observes the cancellation request, every record
\* still in the working set is in the persisted store with
\* attemptingReconnect = false after the step, the call is over, and a call
\* that is over issues no status query and no open.
C8_CancelReleasesClaims ==
    [][\A h \in Handlers :
         /\ IsStep(last', "cancel", h) =>
               /\ cancelRequested[h]
               /\ DOMAIN devenvs[h] # {}
               /\ \A id \in DOMAIN devenvs[h] :
                     id \in DOMAIN store' /\ ~store'[id].attemptingReconnect
               /\ pc'[h] = "done"
         /\ (pc[h] = "suspended" /\ now >= wake[h] /\ cancelRequested[h]
                /\ DOMAIN devenvs[h] # {} /\ last'.h = h) => IsStep(last', "cancel", h)
         /\ pc[h] = "done" =>
               /\ pc'[h] = "done"
               /\ last'.h # h
               /\ opened'[h] = opened[h]
      ]_vars

\* The cancellation write has just released the claims of two records, after
\* at least one tick.
C8_Witness ==
    \E h \in Handlers :
       /\ IsStep(last, "cancel", h)
       /\ DOMAIN store = Ids
       /\ \A id \in Ids : ~store[id].attemptingReconnect
       /\ now > StartTime

\* C9 (as claimed): no step of a watcher (filter, claim write, poll tick,
\* cancellation write) removes from the persisted store a record that is
\* expired, unless the step is the success, the termination or the query
\* error of that record.
C9_ExpiredStaysInStore ==
    [][\A h \in Handlers, id \in DOMAIN store :
         ( /\ last'.h = h
           /\ last'.act \in QuerySteps \cup {"filter", "claim", "cancel", "startTick", "exit"}
           /\ isExpired(store[id].previousConnectionTimestamp, now)
           /\ ~(last'.id = id /\ last'.act \in {"running", "terminating", "failed"}) )
         => id \in DOMAIN store'
      ]_vars

\* C10 (as claimed): in every window handleRestart runs at most once,
\* whatever connection-change signals the registration receives.
C10_RestartHandledOnce ==
    \A p \in Procs : handled[p] <= 1

\* C11: closeWindow is executed only for a watcher whose claimed working set
\* had exactly one record, whose status query answered RUNNING, and only
\* after the connect command for that record has finished and the delay has
\* passed; a watcher that claimed two or more records never starts the
\* delay, whatever its queries answer.
C11_CloseOnlyAfterSingleOpen ==
    [][\A h \in Handlers :
         /\ IsStep(last', "claim", h) =>
               shouldCloseRootInstance'[h] = (Cardinality(DOMAIN devenvs'[h]) = 1)
         /\ (pc[h] \in {"suspended", "tick"} /\ pc'[h] # "done") =>
               shouldCloseRootInstance'[h] = shouldCloseRootInstance[h]
         /\ \A c \in connecting'[h] \ connecting[h] :
               /\ IsStep(last', "running", h) /\ last'.id = c.id
               /\ c.closeRootInstance = shouldCloseRootInstance[h]
               /\ c.closeRootInstance => DOMAIN devenvs[h] = {c.id}
         /\ (closeTimer'[h] # closeTimer[h] /\ closeTimer'[h] # 0) =>
               /\ IsStep(last', "connected", h)
               /\ \E c \in connecting[h] \ connecting'[h] :
                     c.id = last'.id /\ c.closeRootInstance
               /\ closeTimer'[h] = now + CLOSE_DELAY
         /\ IsStep(last', "closeWindow", h) =>
               /\ closeTimer[h] # 0
               /\ now >= closeTimer[h]
               /\ DOMAIN devenvs[h] = {}
      ]_vars

\* closeWindow has just been executed for a watcher that has left
\* pollDevEnvs, one delay after its only record was opened.
C11_Witness ==
    \E h \in Handlers :
       /\ IsStep(last, "closeWindow", h)
       /\ pc[h] = "done"
       /\ connecting[h] = {}
       /\ now >= StartTime + CLOSE_DELAY

\* C12: the cancellation token is looked at only at the head of the loop. A
\* tick that has started queries every record it started with, cancellation
\* requested or not, and writes no released claim; the first loop head that
\* follows a request with records left stores those records with
\* attemptingReconnect = false and ends the call instead of starting a tick.
C12_CancelAtTickBoundary ==
    [][\A h \in Handlers :
         /\ IsStep(last', "startTick", h) =>
               ~cancelRequested[h] /\ todo'[h] = DOMAIN devenvs[h]
         /\ (pc[h] = "tick" /\ last'.h = h) =>
               /\ last'.act \in QuerySteps
               /\ last'.id \in todo[h]
               /\ todo'[h] = todo[h] \ {last'.id}
               /\ pc'[h] = IF todo'[h] = {} THEN "suspended" ELSE "tick"
               /\ \A id \in DOMAIN store' :
                     (id \in DOMAIN store /\ store[id].attemptingReconnect)
                        => store'[id].attemptingReconnect
         /\ IsStep(last', "cancel", h) => pc[h] = "suspended"
         /\ (pc[h] = "suspended" /\ cancelRequested[h] /\ DOMAIN devenvs[h] # {}
                /\ last'.h = h) =>
               /\ IsStep(last', "cancel", h)
               /\ store' = setWatchedDevEnvStatus(devenvs[h], FALSE)
               /\ pc'[h] = "done"
      ]_vars

\* Cancellation was requested while a tick was in progress; the tick has
\* gone on to its last query and a record is left for the next loop head.
C12_Witness ==
    \E h \in Handlers :
       /\ cancelRequested[h]
       /\ last.act \in QuerySteps /\ last.h = h
       /\ pc[h] = "suspended"
       /\ DOMAIN devenvs[h] # {}

\* C13 (as claimed): the poll loop ends. Once every record that is still in
\* the working set of a polling watcher has passed its expiry time, the
\* working set becomes empty and the call returns, whatever the status
\* queries answer from then on.
C13_PollLoopEnds ==
    \A h \in Watcher :
        ( /\ pc[h] \in {"suspended", "tick"}
          /\ \A id \in DOMAIN devenvs[h] :
                isExpired(devenvs[h][id].previousConnectionTimestamp, now) )
        ~> (pc[h] = "done")

\* C14: of two watchers on one store, the one that reads the store after the
\* claim write of the other gets a working set that has no record in common
\* with the working set the other is polling, takes no record that is stored
\* with attemptingReconnect = true, and gains no record afterwards.
C14_SecondReaderExcludesClaimed ==
    [][\A h, g \in Handlers :
         (h # g /\ IsStep(last', "filter", g)) =>
            /\ pc[h] \in {"suspended", "tick"} =>
                  /\ DOMAIN devenvs'[g] \cap DOMAIN devenvs[h] = {}
                  /\ \A id \in DOMAIN devenvs[h] :
                        id \in DOMAIN store => store[id].attemptingReconnect
            /\ \A id \in DOMAIN store :
                  store[id].attemptingReconnect => id \notin DOMAIN devenvs'[g]
            /\ DOMAIN devenvs'[g] \subseteq DOMAIN store
      ]_vars

\* The second watcher has just read a store in which the first one, still
\* polling, holds the claims of two records, and has taken neither.
C14_Witness ==
    \E h, g \in Handlers :
       /\ h # g
       /\ IsStep(last, "filter", g)
       /\ pc[h] \in {"suspended", "tick"}
       /\ DOMAIN devenvs[h] = Ids
       /\ \A id \in Ids : id \in DOMAIN store /\ store[id].attemptingReconnect
       /\ DOMAIN devenvs[g] = {}

\* C15: the filter read and the claim write are two steps, and nothing in
\* the claim write looks at what the store holds by then. The step that reads
\* and filters leaves the store as it is; a watcher takes a record that
\* another watcher holds only while that other watcher has not yet made its
\* claim write; and its own claim write then keeps every record it took.
\* The witness is the interleaving itself.
C15_ClaimNotAtomic ==
    [][\A g \in Handlers :
         /\ IsStep(last', "filter", g) =>
               /\ store' = store
               /\ \A h \in Handlers \ {g} :
                     (Watching(h) /\ DOMAIN devenvs'[g] \cap DOMAIN devenvs[h] # {})
                        => pc[h] = "claim"
         /\ IsStep(last', "claim", g) =>
               /\ pc[g] = "claim"
               /\ DOMAIN devenvs'[g] = DOMAIN devenvs[g]
      ]_vars

\* Both watchers read the store before either claim write; both hold the
\* same record, one has polled it in its tick and the other has just polled
\* it too.
C15_Witness ==
    \E h, g \in Handlers, id \in Ids :
       /\ h # g
       /\ IsQuery(last, g, id)
       /\ id \in DOMAIN devenvs[g]
       /\ id \in DOMAIN devenvs[h]
       /\ pc[h] \in {"tick", "suspended"}
       /\ id \notin todo[h]
       /\ wake[h] # 0 \/ pc[h] = "tick"

\* C16: a call of reconnectDevEnvs that reads the store after the claim
\* write of an earlier call, when every stored record is expired or has
\* attemptingReconnect = true, returns at once: the store is the same before
\* and after, the call has no working set, shows nothing, and takes no
\* further step (no claim write, no tick, no status query).
C16_SecondCallIdle ==
    [][\A h, g \in Handlers :
         /\ ( /\ h # g
              /\ IsStep(last', "filter", g)
              /\ pc[h] \in {"suspended", "tick", "done"}
              /\ \A id \in DOMAIN store :
                    \/ isExpired(store[id].previousConnectionTimestamp, now)
                    \/ store[id].attemptingReconnect )
            => /\ store' = store
               /\ pc'[g] = "done"
               /\ devenvs'[g] = EmptyRecord
               /\ last'.msg = NoMessage
         /\ (pc[g] = "done" /\ devenvs[g] = EmptyRecord) =>
               /\ last'.h # g
               /\ pc'[g] = "done"
               /\ devenvs'[g] = EmptyRecord
      ]_vars

\* The second call has just returned; the first call is asleep between two
\* ticks and its claim of a record that is not expired is in the store.
C16_Witness ==
    \E h, g \in Handlers :
       /\ h # g
       /\ IsStep(last, "filter", g)
       /\ pc[g] = "done"
       /\ pc[h] = "suspended" /\ wake[h] > now
       /\ \E id \in DOMAIN store \cap DOMAIN devenvs[h] :
             /\ store[id].attemptingReconnect
             /\ ~isExpired(store[id].previousConnectionTimestamp, now)

\* C17: when no stored record passes the filter (the store is empty, or
\* every record is expired or has attemptingReconnect = true),
\* reconnectDevEnvs returns without effect: the store is unchanged, nothing
\* is shown, no open call and no close delay is started, and the call takes
\* no later step, so it issues no status query and writes nothing.
C17_EmptyFilterNoEffect ==
    [][\A g \in Handlers :
         /\ ( /\ IsStep(last', "filter", g)
              /\ \A id \in DOMAIN store :
                    \/ isExpired(store[id].previousConnectionTimestamp, now)
                    \/ store[id].attemptingReconnect )
            => /\ store' = store
               /\ last'.msg = NoMessage
               /\ pc'[g] = "done"
               /\ devenvs'[g] = EmptyRecord /\ todo'[g] = {}
               /\ opened'[g] = << >>
               /\ connecting'[g] = {} /\ closeTimer'[g] = 0
         /\ (pc[g] = "done" /\ connecting[g] = {} /\ closeTimer[g] = 0) =>
               /\ last'.h # g
               /\ store' = store
               /\ pc'[g] = "done" /\ connecting'[g] = {} /\ closeTimer'[g] = 0
      ]_vars

\* reconnectDevEnvs has just returned on a store that holds an expired
\* record and a record claimed by a watcher that is gone.
C17_Witness ==
    \E g \in Handlers :
       /\ IsStep(last, "filter", g)
       /\ pc[g] = "done"
       /\ DOMAIN store = Ids
       /\ \E id \in Ids : isExpired(store[id].previousConnectionTimestamp, now)
       /\ \E id \in Ids :
             /\ store[id].attemptingReconnect
             /\ ~isExpired(store[id].previousConnectionTimestamp, now)

C20_ClaimWriteKeepsOthers ==
    [][\A g \in Handlers :
         IsStep(last', "claim", g) =>
            \A id \in DOMAIN store :
               /\ (store[id].attemptingReconnect /\ id \notin DOMAIN devenvs[g]) =>
                     (id \in DOMAIN store' /\ store'[id] = store[id])
               /\ (id \in DOMAIN devenvs[g] /\ id \in DOMAIN store') =>
                     store'[id] = [store[id] EXCEPT !.attemptingReconnect = TRUE]
      ]_vars

\* C21 (as claimed): a watcher leaks no claim. Whenever a record leaves the
\* working set of a watcher for another reason than a RUNNING answer (which
\* hands it to openReconnectedDevEnv), the record is afterwards not in the
\* store with attemptingReconnect = true; so once the loop has exited, the
\* only claims of the watcher left in the store are those of opened records.
C21_NoLeakedClaim ==
    [][\A h \in Handlers, id \in Ids :
         ( /\ id \in DOMAIN devenvs[h]
           /\ devenvs[h][id].attemptingReconnect
           /\ id \notin DOMAIN devenvs'[h]
           /\ ~(IsStep(last', "running", h) /\ last'.id = id) )
         => (id \notin DOMAIN store' \/ ~store'[id].attemptingReconnect)
      ]_vars

\* C22 (as claimed): the cancellation write of a polling watcher neither
\* loses nor resurrects what other writers did meanwhile. A record that is
\* in the store with attemptingReconnect = false and is not in the working
\* set (saved by another window while the watcher polled) is still in the
\* store after the write, and an id that is not in the store before the
\* write (removed meanwhile) is not in the store after it.
C22_CancelWriteKeepsOtherWrites ==
    [][\A h \in Handlers :
         IsStep(last', "cancel", h) =>
            /\ \A id \in DOMAIN store :
                  (id \notin DOMAIN devenvs[h] /\ ~store[id].attemptingReconnect)
                     => id \in DOMAIN store'
            /\ \A id \in Ids : id \notin DOMAIN store => id \notin DOMAIN store'
      ]_vars

\* C23: in a tick the status decides before the expiry does. A RUNNING
\* answer makes the watcher call openReconnectedDevEnv for the record and a
\* terminating answer makes it report termination, whether or not the
\* record has passed the reconnect window; expiry is reported only for a
\* record past the window whose answer is neither RUNNING nor terminating.
C23_StatusBeforeExpiry ==
    [][\A h \in Handlers, id \in Ids :
         /\ pollDevEnvsQuery(h, id, "RUNNING") =>
               /\ IsStep(last', "running", h)
               /\ OpenCount(h, id)' = OpenCount(h, id) + 1
               /\ last'.msg = <<"running", NameOf(id)>>
         /\ \A status \in {"FAILED", "DELETING", "DELETED"} :
               pollDevEnvsQuery(h, id, status) =>
                  /\ IsStep(last', "terminating", h)
                  /\ last'.msg = <<"terminating", NameOf(id)>>
         /\ (IsStep(last', "expired", h) /\ last'.id = id) =>
               /\ isExpired(devenvs[h][id].previousConnectionTimestamp, now)
               /\ \E status \in Statuses \ {"RUNNING", "FAILED", "DELETING", "DELETED"} :
                     pollDevEnvsQuery(h, id, status)
      ]_vars

\* A record that has passed the reconnect window has just answered RUNNING
\* and has been handed to openReconnectedDevEnv.
C23_Witness ==
    \E h \in Handlers, id \in Ids :
       /\ IsStep(last, "running", h) /\ last.id = id
       /\ OpenCount(h, id) = 1
       /\ id \in DOMAIN store
       /\ isExpired(store[id].previousConnectionTimestamp, now)

\* C24: in a window that runs inside a dev environment (envId defined) the
\* handler never filters, claims, starts a tick or issues a status query.
\* Its one step removes the record of envId from the store and reports the
\* reconnection when the store has such a record, and changes and shows
\* nothing otherwise; every other record of the store is as before.
C24_RemoteHandlerFrame ==
    [][\A h \in Handlers :
         LET env == envId[WindowOf(h)]
         IN  /\ (env # None /\ last'.h = h) =>
                   last'.act \in {"signal", "ignored", "notConnected", "remote"}
             /\ env # None => (pc'[h] \in {"idle", "awaitClient", "done"}
                                /\ devenvs'[h] = EmptyRecord)
             /\ IsStep(last', "remote", h) =>
                   /\ env # None /\ last'.id = env
                   /\ pc'[h] = "done"
                   /\ DOMAIN store' = DOMAIN store \ {env}
                   /\ \A id \in DOMAIN store' : store'[id] = store[id]
                   /\ last'.msg = IF env \in DOMAIN store
                                  THEN <<"reconnected", NameOf(env)>>
                                  ELSE NoMessage
      ]_vars

\* The handler of the remote window has just removed the record of its dev
\* environment while the other record, claimed by the watcher of the local
\* window, is still in the store.
C24_Witness ==
    \E h \in Handlers :
       /\ IsStep(last, "remote", h)
       /\ last.msg # NoMessage
       /\ last.id \notin DOMAIN store
       /\ \E id \in DOMAIN store : id # last.id /\ store[id].attemptingReconnect
       /\ \E g \in Handlers : g # h /\ pc[g] \in {"suspended", "tick"}

\* C25: saveReconnectionInformation leaves the store with a record for the
\* id that has attemptingReconnect = false and previousConnectionTimestamp =
\* now; removeReconnectionInformation leaves the store without the id; both
\* leave every record of another id as it was; and saving an id that the
\* store does not hold and then removing it gives back the store.
C25_SaveRemoveFrame ==
    [][/\ last'.act = "save" =>
            LET id == last'.id
            IN  /\ DOMAIN store' = DOMAIN store \cup {id}
                /\ ~store'[id].attemptingReconnect
                /\ store'[id].previousConnectionTimestamp = now
                /\ \A k \in DOMAIN store \ {id} : store'[k] = store[k]
       /\ last'.act = "remove" =>
            LET id == last'.id
            IN  /\ DOMAIN store' = DOMAIN store \ {id}
                /\ \A k \in DOMAIN store' : store'[k] = store[k]
       /\ \A id \in Ids \ DOMAIN store :
             removeReconnectionInformation(
                 saveReconnectionInformation(store, id, now), id) = store
      ]_vars

\* A record that a watcher had claimed and is polling has just been saved
\* again, next to another record that the watcher holds as well.
C25_Witness ==
    /\ last.act = "save"
    /\ DOMAIN store = Ids
    /\ ~store[last.id].attemptingReconnect
    /\ store[last.id].previousConnectionTimestamp = now
    /\ now > StartTime
    /\ \E h \in Handlers :
          /\ pc[h] \in {"suspended", "tick"}
          /\ DOMAIN devenvs[h] = Ids
    /\ \E k \in Ids \ {last.id} : store[k].attemptingReconnect

\* C26 (as claimed): for every zip file path and every workspace
\* configuration getPathsFromZipFilePath and registerNewFiles resolve the
\* same workspace folder and the same relative path (one throws exactly when
\* the other skips the file); with a single workspace folder the relative
\* path is the zip path; with prefixed folders a path without separator
\* keeps all of its characters.
C26_SamePaths ==
    (call.fn = "paths" /\ Len(result) = 2) =>
       LET got == result[ReturnOf("getPathsFromZipFilePath")].value
           reg == result[ReturnOf("registerNewFiles")].value
       IN  /\ (got.status = "ok") = (reg.status = "ok")
           /\ got.workspaceFolder = reg.workspaceFolder
           /\ got.relativePath = reg.relativePath
           /\ (~call.prefixed) => got.relativePath = call.zipFilePath
           /\ (call.prefixed /\ got.status = "ok" /\ indexOf(call.zipFilePath, Sep) = -1)
                 => got.relativePath = call.zipFilePath

RECURSIVE SizeOfZip(_, _)
SizeOfZip(files, zip) ==
    IF zip = {} THEN 0
    ELSE LET i == CHOOSE j \in zip : TRUE
         IN  files[i].size + SizeOfZip(files, zip \ {i})

\* C27 (as claimed): the repository size prepareRepoData reports is the sum
\* of the sizes of exactly the files added to the zip; a file that is missing
\* (at stat time or when added to the zip), is not a code file, or has size
\* >= maxFileSizeBytes is not in the zip and adds nothing to the reported
\* size.
C27_SizeIsZipSize ==
    (call.fn = "prepareRepoData" /\ result # NoResult /\ result[1].reported # << >>) =>
       /\ result[1].reported[1] = SizeOfZip(call.files, result[1].zip)
       /\ \A i \in 1 .. Len(call.files) :
             (\/ call.files[i].fate # "present"
              \/ ~call.files[i].isCodeFile
              \/ call.files[i].size >= maxFileSizeBytes) => i \notin result[1].zip

\* C28: validateName returns no error exactly when the name has between 4
\* and 40 characters, all of them in [A-Za-z0-9_-], and does not start with
\* '_' or '-'; every other name, the empty one included, gets a message, the
\* length messages before the whitespace message and the whitespace message
\* before the invalid character message.
C28_ValidateName ==
    (call.fn = "validateName" /\ result # NoResult) =>
       LET name == call.name
           n == Len(name)
           lengthOk == n >= 4 /\ n <= 40
           hasSpace == \E i \in 1 .. n : name[i] \in Whitespace
           allGood == \A i \in 1 .. n : name[i] \in GoodNameChars
           firstOk == n > 0 /\ name[1] \notin {"_", "-"}
           message == result[1].message
       IN  /\ (message = None) = (lengthOk /\ allGood /\ firstOk)
           /\ (n < 4) => message = validationTooShort
           /\ (n > 40) => message = validationExceeds
           /\ (lengthOk /\ hasSpace) => message = validationWhitespace
           /\ (lengthOk /\ ~hasSpace /\ ~(allGood /\ firstOk)) => message = validationBadChar

\* A 40 character name holding both a space and an invalid character got the
\* whitespace message.
C28_Witness ==
    /\ call.fn = "validateName"
    /\ result # NoResult
    /\ Len(call.name) = 40
    /\ \E i \in 1 .. 40 : call.name[i] = " "
    /\ \E i \in 1 .. 40 : call.name[i] = "!"
    /\ result[1].message = validationWhitespace

====
